---- MODULE Spec2Model ----
(***************************************************************************)
(* State-machine model of serospace/editor.                                *)
(*                                                                         *)
(* PhotoEditor (src/components/LinkPreviewDialog.tsx, lines 371-958): the  *)
(* React state of the component, the canvas element it draws on and the    *)
(* image loads it has started.  Every event handler is one action; the     *)
(* effects React runs after the handler's render are part of that action.  *)
(***************************************************************************)
EXTENDS Integers, Sequences, FiniteSets, TLC

(***************************************************************************)
(* Bounds of the model.                                                    *)
(***************************************************************************)
MaxHistory == 2      \* edits of one original image: the active actions, the
                     \* crops and the strokes they made part of the image
MaxPath == 2         \* a pen path is not extended beyond this many points

(***************************************************************************)
(* Program constants.                                                      *)
(***************************************************************************)
maxWidth == 800
maxHeight == 600
DefaultLineWidth == 3
DefaultColor == "#ff0000"

(***************************************************************************)
(* Inputs.                                                                 *)
(***************************************************************************)
Pt(px, py) == [x |-> px, y |-> py]

\* pointer-down positions and pointer-move / pointer-up positions
\* (offsets into the displayed canvas): a drag ends where it began, straight
\* below it (a region without width) or up and to the left of it
DownPoints == {Pt(1, 1)}
Points == {Pt(1, 1), Pt(1, 2), Pt(0, 0)}

\* the image files the component is given (props) or the user picks
Files == {"f1", "f2"}
NaturalSize == [f \in Files |-> IF f = "f1" THEN <<3, 3>> ELSE <<4, 3>>]

\* the tools that have a toolbar button
ToolButtons == {"crop", "mosaic", "rectangle", "circle", "pen"}

Null == [null |-> TRUE]

VARIABLES
    image,        \* useState<HTMLImageElement | null>
    tool,         \* useState<Tool>
    isDrawing,    \* useState(false)
    startPoint,   \* useState<Point | null>
    currentPath,  \* useState<Point[]>
    history,      \* useState<DrawAction[]>
    historyStep,  \* useState(-1), 0-based index into history
    canvas,       \* the <canvas> element: its size and what was drawn on it
    pending,      \* image loads whose onload has not fired yet
    imageUrl,     \* the imageFile / imageUrl prop; "" when the prop is absent
    lastEvent,    \* the handler that ran last and the branch it took
    output,       \* what that handler handed out: the blob given to onSave or
                  \* the data URL of the download link; Null when nothing
    replay,       \* position in the undo/redo replay scenario (SpecReplay)
    doc,          \* editor.view.state.doc: the document, token by token
    merging,      \* the mergeImages call awaiting its aspect-ratio probes
    mergeEvent,   \* what the last step of the image drop handling did
    edits,        \* number of other edits made to the document
    mosaic,       \* a canvas applyMosaic is run on, and the region
    dialog,       \* LinkPreviewDialog: its useState values and the open prop
    fetches,      \* fetchLinkMetadata calls that have not settled
    inserted,     \* what onInsert was called with last
    thumbnailUrl, \* let thumbnailUrl: string | null
    thumbnailKey, \* let thumbnailKey: string | null
    urlToKeyMap   \* const urlToKeyMap: Map<string, string>

vars == <<image, tool, isDrawing, startPoint, currentPath, history,
          historyStep, canvas, pending, imageUrl, lastEvent, output, replay,
          doc, merging, mergeEvent, edits, mosaic, dialog, fetches, inserted,
          thumbnailUrl, thumbnailKey, urlToKeyMap>>

\* the photo editor and the document of the rich-text editor are separate
\* components: neither reads or writes the other's state
editorVars == <<image, tool, isDrawing, startPoint, currentPath, history,
                historyStep, canvas, pending, imageUrl, lastEvent, output,
                replay>>
mergeVars == <<doc, merging, mergeEvent, edits>>
mosaicVars == <<mosaic>>
dialogVars == <<dialog, fetches, inserted>>
thumbnailVars == <<thumbnailUrl, thumbnailKey, urlToKeyMap>>

(***************************************************************************)
(* Observation.  Every handler ends by noting which handler ran and the    *)
(* branch it took.  In the replay scenario (SpecReplay) the user, right    *)
(* after an action was recorded, presses undo as many times as the history *)
(* is long and then redo as many times, with nothing in between.           *)
(***************************************************************************)
emit(event, out) ==
    /\ lastEvent' = event
    /\ output' = out
    /\ UNCHANGED <<mergeVars, mosaicVars, dialogVars, thumbnailVars>>
    /\ CASE replay.phase = "undo" ->
               /\ event \in {"undo", "undoNoop"}
               /\ replay' = IF replay.left = 1
                            THEN [replay EXCEPT !.phase = "redo", !.left = replay.n]
                            ELSE [replay EXCEPT !.left = @ - 1]
         [] replay.phase = "redo" ->
               /\ event \in {"redo", "redoNoop"}
               /\ replay' = IF replay.left = 1
                            THEN [replay EXCEPT !.phase = "done", !.left = 0]
                            ELSE [replay EXCEPT !.left = @ - 1]
         [] replay.phase = "done" -> FALSE
         [] OTHER -> replay' = replay

\* a handler that hands nothing out
observe(event) == emit(event, Null)

(***************************************************************************)
(* Images and the canvas.                                                  *)
(***************************************************************************)
FileImage(f) == [kind |-> "file", file |-> f,
                 width |-> NaturalSize[f][1], height |-> NaturalSize[f][2]]

\* canvasRef.current is null while the <canvas> is not rendered
NoCanvas == [width |-> 0, height |-> 0, base |-> Null, drawn |-> <<>>]

Min(a, b) == IF a < b THEN a ELSE b
Abs(a) == IF a < 0 THEN -a ELSE a

(***************************************************************************)
(* Drawing.  The canvas content is the base image drawn on it followed by  *)
(* the strokes made since, in order; a call that paints nothing leaves no  *)
(* stroke.                                                                 *)
(***************************************************************************)
regionWidth(start, end) == Abs(end.x - start.x)
regionHeight(start, end) == Abs(end.y - start.y)

\* what applyAction paints for one recorded action
applyAction(action) ==
    CASE action.type = "mosaic" ->
            \* applyMosaic: the block loops run only over a region with area
            IF Len(action.points) < 2
               \/ regionWidth(action.points[1], action.points[2]) = 0
               \/ regionHeight(action.points[1], action.points[2]) = 0
            THEN <<>> ELSE <<action>>
      [] action.type = "rectangle" ->
            \* strokeRect paints nothing when width and height are both zero
            IF Len(action.points) >= 2 /\ action.points[1] # action.points[2]
            THEN <<action>> ELSE <<>>
      [] action.type = "circle" ->
            IF Len(action.points) >= 2 THEN <<action>> ELSE <<>>
      [] action.type = "pen" ->
            IF Len(action.points) > 1 THEN <<action>> ELSE <<>>
      [] OTHER -> <<>>

RECURSIVE applyAll(_)
applyAll(actions) ==
    IF actions = <<>> THEN <<>>
    ELSE applyAction(Head(actions)) \o applyAll(Tail(actions))

\* history.slice(0, historyStep + 1)
actionsToApply(hist, step) == SubSeq(hist, 1, step + 1)

\* clearRect, drawImage(image) scaled to the canvas, then every active action
redrawCanvas(cv, img, hist, step) ==
    IF cv = NoCanvas \/ img = Null
    THEN cv
    ELSE [cv EXCEPT !.base = img, !.drawn = applyAll(actionsToApply(hist, step))]

\* the size the canvas is given for an image: scaled down to 800 x 600
canvasSize(img) ==
    IF img.width > maxWidth \/ img.height > maxHeight
    THEN IF maxWidth * img.height <= maxHeight * img.width
         THEN <<maxWidth, (img.height * maxWidth) \div img.width>>
         ELSE <<(img.width * maxHeight) \div img.height, maxHeight>>
    ELSE <<img.width, img.height>>

\* The two effects that depend on redrawCanvas, run after a render in which
\* image, history or historyStep changed: size the canvas (which clears it)
\* and redraw.
setupCanvas(cv, img, hist, step) ==
    IF img = Null
    THEN cv
    ELSE redrawCanvas([width |-> canvasSize(img)[1],
                       height |-> canvasSize(img)[2],
                       base |-> Null, drawn |-> <<>>], img, hist, step)

(***************************************************************************)
(* Image loads.                                                            *)
(***************************************************************************)
\* new Image() whose src was set and whose onload has not fired; clears
\* tells whether its onload also resets the history (applyCrop's does)
Load(img, clears) == [img |-> img, clears |-> clears]

(***************************************************************************)
(* The components beside the photo editor, before anything is done with    *)
(* them: the link dialog and the module-level thumbnail registry.          *)
(***************************************************************************)
\* a string | null value that is a string
Str(s) == [str |-> s]

\* the URLs of images in the document and the file keys of uploads
ThumbnailUrls == {Str("u1"), Str("u2"), Str("u3")}
ThumbnailKeys == {Str("k1"), Str("k2")}

\* the useState initial values of LinkPreviewDialog
initialDialog ==
    [open |-> FALSE, url |-> "", linkType |-> "preview", linkText |-> "",
     layout |-> "horizontal", metadata |-> Null, isLoading |-> FALSE,
     error |-> ""]

InitDialog ==
    /\ dialog = initialDialog
    /\ fetches = {}
    /\ inserted = Null

InitThumbnail ==
    /\ thumbnailUrl = Null
    /\ thumbnailKey = Null
    /\ urlToKeyMap = [u \in ThumbnailUrls |-> Null]

InitEditor ==
    /\ image = Null
    /\ tool = "none"
    /\ isDrawing = FALSE
    /\ startPoint = Null
    /\ currentPath = <<>>
    /\ history = <<>>
    /\ historyStep = -1
    /\ canvas = NoCanvas
    /\ imageUrl \in {"", "f1"}
    \* the load effect runs once after the first render
    /\ pending = IF imageUrl = "" THEN {} ELSE {Load(FileImage(imageUrl), FALSE)}
    /\ lastEvent = "init"
    /\ output = Null
    /\ doc = <<>>
    /\ merging = Null
    /\ mergeEvent = [kind |-> "none"]
    /\ edits = 0
    /\ mosaic = Null
    /\ InitDialog
    /\ InitThumbnail

\* The parent renders the editor with another imageFile / imageUrl: the load
\* effect runs again.
loadImageEffect(f) ==
    /\ f # imageUrl
    /\ Load(FileImage(f), FALSE) \notin pending
    /\ imageUrl' = f
    /\ pending' = pending \cup {Load(FileImage(f), FALSE)}
    /\ observe("other")
    /\ UNCHANGED <<image, tool, isDrawing, startPoint, currentPath, history,
                   historyStep, canvas>>

\* The file input exists only while neither prop is given.
handleFileChange(f) ==
    /\ imageUrl = ""
    /\ Load(FileImage(f), FALSE) \notin pending
    /\ pending' = pending \cup {Load(FileImage(f), FALSE)}
    /\ observe("other")
    /\ UNCHANGED <<image, tool, isDrawing, startPoint, currentPath, history,
                   historyStep, canvas, imageUrl>>

\* an onload that never resets the history
historyKeptAfterLoad(l, hist) == hist

\* what the onload handler of a load leaves of the history and the cursor
historyAfterLoad(l, hist) == IF l.clears THEN <<>> ELSE hist

historyStepAfterLoad(l, step) == IF l.clears THEN -1 ELSE step

\* img.onload of a pending load: setImage, and for a cropped image
\* setHistory([]) and setHistoryStep(-1); then the canvas effects.
onload ==
    \E l \in pending :
        /\ pending' = pending \ {l}
        /\ image' = l.img
        /\ history' = historyAfterLoad(l, history)
        /\ historyStep' = historyStepAfterLoad(l, historyStep)
        /\ canvas' = setupCanvas(canvas, image', history', historyStep')
        /\ observe(IF l.clears THEN "cropLoad" ELSE "load")
        /\ UNCHANGED <<tool, isDrawing, startPoint, currentPath, imageUrl>>

(***************************************************************************)
(* Toolbar.                                                                *)
(***************************************************************************)
\* onClick of a tool button, between gestures
setTool(t) ==
    /\ t # tool
    /\ ~isDrawing
    /\ tool' = t
    /\ observe("other")
    /\ UNCHANGED <<image, isDrawing, startPoint, currentPath, history,
                   historyStep, canvas, pending, imageUrl>>

\* addToHistory without history.slice
addToHistoryNoTruncate(hist, step, action) == Append(hist, action)

\* newHistory of addToHistory: the active prefix followed by the action
addToHistory(hist, step, action) == Append(SubSeq(hist, 1, step + 1), action)

\* undo without its guard
undoStepUnguarded(step) == step - 1

\* undo that skips an action
undoStepTwice(step) == IF step > -1 THEN step - 2 ELSE step

undoStep(step) == IF step > -1 THEN step - 1 ELSE step

\* redo that jumps to the newest action
redoStepToEnd(hist, step) == IF step < Len(hist) - 1 THEN Len(hist) - 1 ELSE step

\* redo that stops one action short of the newest
redoStepShort(hist, step) == IF step < Len(hist) - 2 THEN step + 1 ELSE step

redoStep(hist, step) == IF step < Len(hist) - 1 THEN step + 1 ELSE step

\* The canvas after a render: the effects run only when image, history or
\* historyStep changed (redrawCanvas is memoised on them).
handleUndo ==
    /\ historyStep' = undoStep(historyStep)
    /\ canvas' = IF historyStep' # historyStep
                 THEN setupCanvas(canvas, image, history, historyStep')
                 ELSE canvas
    /\ observe(IF historyStep > -1 THEN "undo" ELSE "undoNoop")
    /\ UNCHANGED <<image, tool, isDrawing, startPoint, currentPath, history,
                   pending, imageUrl>>

handleRedo ==
    /\ historyStep' = redoStep(history, historyStep)
    /\ canvas' = IF historyStep' # historyStep
                 THEN setupCanvas(canvas, image, history, historyStep')
                 ELSE canvas
    /\ observe(IF historyStep < Len(history) - 1 THEN "redo" ELSE "redoNoop")
    /\ UNCHANGED <<image, tool, isDrawing, startPoint, currentPath, history,
                   pending, imageUrl>>

(***************************************************************************)
(* Pointer gestures.  The canvas is rendered only while an image is set.   *)
(***************************************************************************)
handleMouseDown(p) ==
    /\ image # Null
    /\ tool # "none"
    /\ isDrawing' = TRUE
    /\ startPoint' = p
    /\ currentPath' = IF tool = "pen" THEN <<p>> ELSE currentPath
    /\ observe("other")
    /\ UNCHANGED <<image, tool, history, historyStep, canvas, pending,
                   imageUrl>>

\* the stroke handleMouseMove paints over the redrawn canvas
preview(t, start, p, path) ==
    CASE t = "crop" ->
            IF start = p THEN <<>>
            ELSE <<[type |-> "cropPreview", points |-> <<start, p>>,
                    color |-> "#000", lineWidth |-> 2]>>
      [] t = "mosaic" ->
            IF start = p THEN <<>>
            ELSE <<[type |-> "mosaicPreview", points |-> <<start, p>>,
                    color |-> "#ff0000", lineWidth |-> 2]>>
      [] t = "rectangle" ->
            applyAction([type |-> "rectangle", points |-> <<start, p>>,
                         color |-> DefaultColor, lineWidth |-> DefaultLineWidth])
      [] t = "circle" ->
            applyAction([type |-> "circle", points |-> <<start, p>>,
                         color |-> DefaultColor, lineWidth |-> DefaultLineWidth])
      [] t = "pen" ->
            \* currentPath[0] of an empty path is undefined: TypeError
            IF path = <<>> THEN <<>>
            ELSE <<[type |-> "pen", points |-> Append(path, p),
                    color |-> DefaultColor, lineWidth |-> DefaultLineWidth]>>
      [] OTHER -> <<>>

\* a pointer-move that records what it previews
handleMouseMoveCommits(p) ==
    /\ image # Null
    /\ isDrawing /\ startPoint # Null
    /\ tool = "pen" => Len(currentPath) < MaxPath
    /\ historyStep + 2 <= MaxHistory
    /\ history' = addToHistory(history, historyStep,
                      [type |-> tool, points |-> <<startPoint, p>>,
                       color |-> DefaultColor, lineWidth |-> DefaultLineWidth])
    /\ historyStep' = Len(history') - 1
    /\ canvas' = setupCanvas(canvas, image, history', historyStep')
    /\ currentPath' = IF tool = "pen" THEN Append(currentPath, p) ELSE currentPath
    /\ observe("move")
    /\ UNCHANGED <<image, tool, isDrawing, startPoint, pending, imageUrl>>

handleMouseMove(p) ==
    /\ image # Null
    /\ isDrawing /\ startPoint # Null
    /\ tool = "pen" => Len(currentPath) < MaxPath
    /\ LET redrawn == redrawCanvas(canvas, image, history, historyStep)
       IN canvas' = [redrawn EXCEPT
                       !.drawn = @ \o preview(tool, startPoint, p, currentPath)]
    /\ currentPath' = IF tool = "pen" THEN Append(currentPath, p) ELSE currentPath
    /\ observe("move")
    /\ UNCHANGED <<image, tool, isDrawing, startPoint, history, historyStep,
                   pending, imageUrl>>

(***************************************************************************)
(* applyCrop.                                                              *)
(***************************************************************************)
cropRegion(start, end) ==
    [x |-> Min(start.x, end.x), y |-> Min(start.y, end.y),
     width |-> regionWidth(start, end), height |-> regionHeight(start, end)]

\* a getImageData that accepts an empty rectangle
getImageDataNeverThrows(sw, sh) == FALSE

\* ctx.getImageData(x, y, sw, sh) throws IndexSizeError when sw or sh is 0
getImageDataThrows(sw, sh) == sw = 0 \/ sh = 0

\* the Image made from the canvas after putImageData of the region
croppedImage(cv, r) ==
    [kind |-> "crop", width |-> r.width, height |-> r.height,
     of |-> cv, x |-> r.x, y |-> r.y]

\* the crops that made an image and the strokes they made part of it
RECURSIVE baked(_)
baked(img) ==
    IF img = Null THEN 0
    ELSE IF img.kind = "crop"
         THEN 1 + Len(img.of.drawn) + baked(img.of.base)
         ELSE 0

cropsLoading == {l \in pending : l.clears}

\* the DrawAction handleMouseUp records for a tool
drawAction(t, start, p, path) ==
    CASE t = "mosaic" ->
            [type |-> "mosaic", points |-> <<start, p>>, color |-> DefaultColor]
      [] t = "pen" ->
            [type |-> "pen", points |-> path, color |-> DefaultColor,
             lineWidth |-> DefaultLineWidth]
      [] OTHER ->
            [type |-> t, points |-> <<start, p>>, color |-> DefaultColor,
             lineWidth |-> DefaultLineWidth]

\* handleMouseUp without the currentPath.length > 1 test
recordsEveryPen(t, path) == t \in {"mosaic", "rectangle", "circle", "pen"}

\* whether handleMouseUp reaches addToHistory
records(t, path) ==
    \/ t \in {"mosaic", "rectangle", "circle"}
    \/ t = "pen" /\ Len(path) > 1

handleMouseUp(p) ==
    /\ image # Null
    /\ isDrawing /\ startPoint # Null
    /\ isDrawing' = FALSE
    /\ IF tool = "crop"
       THEN LET r == cropRegion(startPoint, p)
            IN /\ observe(IF r.width = 0 \/ r.height = 0
                               THEN "cropEmpty" ELSE "crop")
               /\ IF getImageDataThrows(r.width, r.height)
                  THEN \* the exception leaves the handler before the canvas
                       \* is resized and before setStartPoint(null) and
                       \* setCurrentPath([])
                       UNCHANGED <<startPoint, currentPath, canvas, pending>>
                  ELSE /\ cropsLoading = {}
                       /\ baked(croppedImage(canvas, r)) <= MaxHistory
                       /\ canvas' = [width |-> r.width, height |-> r.height,
                                     base |-> croppedImage(canvas, r),
                                     drawn |-> <<>>]
                       /\ pending' = pending \cup
                                       {Load(croppedImage(canvas, r), TRUE)}
                       /\ startPoint' = Null
                       /\ currentPath' = <<>>
               /\ UNCHANGED <<history, historyStep>>
       ELSE IF records(tool, currentPath)
       THEN /\ historyStep + 2 + baked(image) <= MaxHistory
            /\ history' = addToHistory(history, historyStep,
                              drawAction(tool, startPoint, p, currentPath))
            /\ historyStep' = Len(history') - 1
            /\ canvas' = setupCanvas(canvas, image, history', historyStep')
            /\ startPoint' = Null
            /\ currentPath' = <<>>
            /\ observe(IF historyStep < Len(history) - 1
                             THEN "recordAfterUndo" ELSE "record")
            /\ UNCHANGED pending
       ELSE /\ startPoint' = Null
            /\ currentPath' = <<>>
            /\ observe("discard")
            /\ UNCHANGED <<history, historyStep, canvas, pending>>
    /\ UNCHANGED <<image, tool, imageUrl>>

(***************************************************************************)
(* Export.  The save button exists while onSave is given; canvas.toBlob    *)
(* and canvas.toDataURL encode the canvas bitmap as it is at the call.     *)
(***************************************************************************)
\* an export that does not test canvasRef.current
exportsWithoutCanvas(cv) == TRUE

\* if (!canvas) return
exports(cv) == cv # NoCanvas

\* the pixels toBlob / toDataURL encode
exported(cv) == cv

handleSave ==
    /\ IF exports(canvas)
       THEN emit("save", [via |-> "onSave", pixels |-> exported(canvas)])
       ELSE observe("saveNoop")
    /\ UNCHANGED <<image, tool, isDrawing, startPoint, currentPath, history,
                   historyStep, canvas, pending, imageUrl>>

handleDownload ==
    /\ IF exports(canvas)
       THEN emit("download", [via |-> "link", pixels |-> exported(canvas)])
       ELSE observe("downloadNoop")
    /\ UNCHANGED <<image, tool, isDrawing, startPoint, currentPath, history,
                   historyStep, canvas, pending, imageUrl>>

(***************************************************************************)
(* The editor.                                                             *)
(***************************************************************************)
\* The editor is used with the crop and pen tools on one image file.
EditorTools == {"crop", "pen"}
EditorFiles == {"f1"}

Init == InitEditor /\ replay = [phase |-> "off"]

Next ==
    \/ \E f \in EditorFiles : loadImageEffect(f)
    \/ \E f \in EditorFiles : handleFileChange(f)
    \/ onload
    \/ \E t \in EditorTools : setTool(t)
    \/ \E p \in DownPoints : handleMouseDown(p)
    \/ \E p \in Points : handleMouseMove(p)
    \/ \E p \in Points : handleMouseUp(p)
    \/ handleUndo
    \/ handleRedo

Spec == Init /\ [][Next]_vars

(***************************************************************************)
(* The replay scenario.                                                    *)
(***************************************************************************)
InitReplay == InitEditor /\ replay = [phase |-> "edit"]

\* the state right after the N actions were recorded
replayBegin ==
    /\ replay.phase = "edit"
    /\ lastEvent \in {"record", "recordAfterUndo"}
    /\ replay' = [phase |-> "undo", n |-> Len(history), left |-> Len(history),
                  history |-> history, historyStep |-> historyStep,
                  canvas |-> canvas]
    /\ UNCHANGED <<image, tool, isDrawing, startPoint, currentPath, history,
                   historyStep, canvas, pending, imageUrl, lastEvent, output,
                   doc, merging, mergeEvent, edits>>
    /\ UNCHANGED <<mosaicVars, dialogVars, thumbnailVars>>

NextReplay ==
    \/ \E f \in EditorFiles : loadImageEffect(f)
    \/ \E f \in EditorFiles : handleFileChange(f)
    \/ onload
    \/ \E t \in EditorTools : setTool(t)
    \/ \E p \in DownPoints : handleMouseDown(p)
    \/ \E p \in Points : handleMouseMove(p)
    \/ \E p \in Points : handleMouseUp(p)
    \/ handleUndo
    \/ handleRedo
    \/ replayBegin

SpecReplay == InitReplay /\ [][NextReplay]_vars

(***************************************************************************)
(* The editor used with the mosaic, rectangle and circle tools.            *)
(***************************************************************************)
ShapeTools == {"mosaic", "rectangle", "circle"}

NextShapes ==
    \/ \E f \in EditorFiles : loadImageEffect(f)
    \/ \E f \in EditorFiles : handleFileChange(f)
    \/ onload
    \/ \E t \in ShapeTools : setTool(t)
    \/ \E p \in DownPoints : handleMouseDown(p)
    \/ \E p \in Points : handleMouseMove(p)
    \/ \E p \in Points : handleMouseUp(p)
    \/ handleUndo
    \/ handleRedo

SpecShapes == Init /\ [][NextShapes]_vars

(***************************************************************************)
(* The editor with its export buttons.                                     *)
(***************************************************************************)
NextExport ==
    \/ \E f \in EditorFiles : loadImageEffect(f)
    \/ \E f \in EditorFiles : handleFileChange(f)
    \/ onload
    \/ \E t \in EditorTools : setTool(t)
    \/ \E p \in DownPoints : handleMouseDown(p)
    \/ \E p \in Points : handleMouseMove(p)
    \/ \E p \in Points : handleMouseUp(p)
    \/ handleUndo
    \/ handleRedo
    \/ handleSave
    \/ handleDownload

SpecExport == Init /\ [][NextExport]_vars

(***************************************************************************)
(* The editor with all its tools, gestures only.                           *)
(***************************************************************************)
NextGesture ==
    \/ \E f \in EditorFiles : loadImageEffect(f)
    \/ onload
    \/ \E t \in ToolButtons : setTool(t)
    \/ \E p \in DownPoints : handleMouseDown(p)
    \/ \E p \in Points : handleMouseMove(p)
    \/ \E p \in Points : handleMouseUp(p)

SpecGesture == Init /\ [][NextGesture]_vars

(***************************************************************************)
(* The toolbar during a gesture.  The canvas has onMouseDown, onMouseMove  *)
(* and onMouseUp only: a pointer released outside it leaves isDrawing set, *)
(* and the tool buttons can be clicked before the pointer is back.         *)
(***************************************************************************)
\* onClick of a tool button, whenever it is clicked
onClickTool(t) ==
    /\ t # tool
    /\ tool' = t
    /\ observe("other")
    /\ UNCHANGED <<image, isDrawing, startPoint, currentPath, history,
                   historyStep, canvas, pending, imageUrl>>

NextTools ==
    \/ \E f \in EditorFiles : loadImageEffect(f)
    \/ onload
    \/ \E t \in ShapeTools : onClickTool(t)
    \/ \E p \in DownPoints : handleMouseDown(p)
    \/ \E p \in Points : handleMouseMove(p)
    \/ \E p \in Points : handleMouseUp(p)

SpecTools == Init /\ [][NextTools]_vars

(***************************************************************************)
(* The editor given one image after another: the parent changes the prop   *)
(* or the user picks files, while earlier loads may still be in flight.    *)
(***************************************************************************)
NextLoads ==
    \/ \E f \in Files : loadImageEffect(f)
    \/ \E f \in Files : handleFileChange(f)
    \/ onload
    \/ \E t \in EditorTools : setTool(t)
    \/ \E p \in DownPoints : handleMouseDown(p)
    \/ \E p \in Points : handleMouseUp(p)
    \/ handleSave

SpecLoads == Init /\ [][NextLoads]_vars

(***************************************************************************)
(* Image merge (src/CustomImageExtension.tsx).  The document is the        *)
(* sequence of its tokens: a paragraph's opening, its inline nodes (images *)
(* and text characters, each of size 1) and its closing, so that document  *)
(* position p is the gap after p tokens and the node at p is token p + 1.  *)
(***************************************************************************)
MaxSide == 3         \* naturalWidth and naturalHeight of the probed images
MaxEdits == 1        \* edits made to the document besides the merge

gapPercent == 98     \* Math.round(... * 98): 2% are left free

Ids == {"a", "b", "c"}

Img(id, width) == [type |-> "image", id |-> id, src |-> id, width |-> width]
OpenP == [type |-> "paragraph_open"]
CloseP == [type |-> "paragraph_close"]
Txt == [type |-> "text"]

\* an image inside a link: the node carries the link mark
LinkedImg(id, width) ==
    [type |-> "image", id |-> id, src |-> id, width |-> width,
     marks |-> {"link"}]

\* the width attribute: 'auto', or `${n}%`
Auto == [unit |-> "auto", n |-> 0]
Percent(n) == [unit |-> "%", n |-> n]

InitialDocs ==
    { <<OpenP, Img("a", Auto), Img("b", Auto), CloseP>>,
      <<OpenP, Img("a", Percent(100)), Txt, CloseP,
        OpenP, Img("b", Auto), Img("c", Percent(33)), CloseP>>,
      <<OpenP, LinkedImg("a", Percent(50)), CloseP,
        OpenP, Img("b", Auto), CloseP>> }

\* what a probe delivers: naturalWidth and naturalHeight, or onerror
ProbeResults == ((1..MaxSide) \X (1..MaxSide)) \cup {<<"error">>}

\* getImageAspectRatio: naturalWidth / naturalHeight as a fraction; 1 on error
getImageAspectRatio(res) == IF Len(res) = 1 THEN <<1, 1>> ELSE res

imagePositions(d, id) ==
    {p \in 0..(Len(d) - 1) : d[p + 1].type = "image" /\ d[p + 1].id = id}

Max(S) == CHOOSE x \in S : \A y \in S : y <= x

\* state.doc.descendants(...): the position of the image with the id, of the
\* last one in document order; Null when there is none
draggedPos(d, id) ==
    IF imagePositions(d, id) = {} THEN Null ELSE Max(imagePositions(d, id))

\* draggedPos === null || !draggedNode
notFound(d, id) == imagePositions(d, id) = {}

\* getPos() of the node view the drop landed on
getPos(d, id) == Max(imagePositions(d, id))

nodeAt(d, pos) == d[pos + 1]

\* a drop handler that accepts the target itself
rejectsNothing(draggedId, targetId) == draggedId = ""

\* if (!draggedId || draggedId === node.attrs.id) return
rejects(draggedId, targetId) == draggedId = "" \/ draggedId = targetId

\* The image with draggedId was dropped on the image with targetId:
\* handleCustomDrop and mergeImages up to the await of the two probes.
handleCustomDrop(draggedId, targetId) ==
    /\ mergeEvent.kind = "none"
    /\ merging = Null
    /\ imagePositions(doc, targetId) # {}
    /\ mergeEvent' = [kind |-> IF draggedId = targetId THEN "selfDrop"
                               ELSE IF notFound(doc, draggedId)
                                    THEN "notFound" ELSE "probing"]
    /\ IF rejects(draggedId, targetId)
       THEN UNCHANGED merging
       ELSE IF notFound(doc, draggedId)
       THEN UNCHANGED merging
       ELSE merging' = [state |-> doc,
                        draggedPos |-> draggedPos(doc, draggedId),
                        draggedNode |-> nodeAt(doc, draggedPos(doc, draggedId)),
                        targetPos |-> getPos(doc, targetId),
                        targetNode |-> nodeAt(doc, getPos(doc, targetId))]
    /\ UNCHANGED <<doc, edits>>
    /\ UNCHANGED <<editorVars, mosaicVars, dialogVars, thumbnailVars>>

\* The integers Math.round((targetRatio / totalRatio) * 98) can be, for
\* targetRatio = rt[1] / rt[2] and draggedRatio = rd[1] / rd[2].  Math.round
\* rounds a half up, but the quotient is computed in double precision: where
\* the exact value lies on a half the computed one may lie just below it
\* ((3/5) / (3/5 + 1/5) * 98 is 73.49999999999999), so both neighbours are
\* possible there.
\* the target width computed from the dragged block's share
targetWidthOfDraggedShare(rt, rd) ==
    LET a == rd[1] * rt[2]
        b == rt[1] * rd[2]
        up == (2 * gapPercent * a + (a + b)) \div (2 * (a + b))
    IN IF (2 * gapPercent * a + (a + b)) % (2 * (a + b)) = 0
       THEN {up - 1, up}
       ELSE {up}

targetWidthPercents(rt, rd) ==
    LET a == rt[1] * rd[2]
        b == rd[1] * rt[2]
        up == (2 * gapPercent * a + (a + b)) \div (2 * (a + b))
    IN IF (2 * gapPercent * a + (a + b)) % (2 * (a + b)) = 0
       THEN {up - 1, up}
       ELSE {up}

\* a dragged width that leaves no gap
draggedWidthOfHundred(targetWidth) == 100 - targetWidth

draggedWidthPercent(targetWidth) == gapPercent - targetWidth

\* tr.setNodeMarkup(pos, undefined, attrs)
setNodeMarkup(d, pos, attrs) == [d EXCEPT ![pos + 1] = attrs]

\* tr.delete(from, to)
delete(d, from, to) == SubSeq(d, 1, from) \o SubSeq(d, to + 1, Len(d))

\* an insert that overwrites the node after the position
insertOver(d, pos, node) ==
    SubSeq(d, 1, pos) \o <<node>> \o SubSeq(d, pos + 2, Len(d))

\* tr.insert(pos, node)
insert(d, pos, node) == SubSeq(d, 1, pos) \o <<node>> \o SubSeq(d, pos + 1, Len(d))

\* an insert position that ignores the deletion before the target
targetPosUncorrected(dPos, tPos, size) == tPos

targetPosAfterDelete(dPos, tPos, size) == IF dPos < tPos THEN tPos - size ELSE tPos

nodeSize == 1

\* the document of the transaction mergeImages builds on the state it read
\* before the probes
mergeTransaction(m, targetWidth) ==
    LET targetAttrs == [m.targetNode EXCEPT !.width = Percent(targetWidth)]
        draggedAttrs == [m.draggedNode EXCEPT
                           !.width = Percent(draggedWidthPercent(targetWidth))]
        marked == setNodeMarkup(setNodeMarkup(m.state, m.targetPos, targetAttrs),
                                m.draggedPos, draggedAttrs)
        deleted == delete(marked, m.draggedPos, m.draggedPos + nodeSize)
        insertPos == targetPosAfterDelete(m.draggedPos, m.targetPos, nodeSize)
                        + nodeSize
    IN insert(deleted, insertPos, draggedAttrs)

\* a dispatch that replays the steps of the transaction, at their positions,
\* on whatever the document is now
dispatchUnchecked(m, targetWidth, current) ==
    IF m.draggedPos < Len(current) /\ m.targetPos < Len(current)
    THEN mergeTransaction([m EXCEPT !.state = current], targetWidth)
    ELSE current

\* dispatch(tr): the document after it.  EditorState.apply throws
\* RangeError("Applying a mismatched transaction") unless the document the
\* transaction was built on equals the current one; the exception ends
\* mergeImages and the document stays.
dispatch(m, targetWidth, current) ==
    IF m.state = current THEN mergeTransaction(m, targetWidth) ELSE current

\* Both probes have answered: the rest of mergeImages, in one piece.
commitMerge(targetRes, draggedRes) ==
    /\ merging # Null
    /\ \E targetWidth \in targetWidthPercents(getImageAspectRatio(targetRes),
                                              getImageAspectRatio(draggedRes)) :
          doc' = dispatch(merging, targetWidth, doc)
    /\ mergeEvent' = [kind |-> IF merging.state = doc THEN "merged"
                               ELSE "mismatch"]
    /\ merging' = Null
    /\ UNCHANGED edits
    /\ UNCHANGED <<editorVars, mosaicVars, dialogVars, thumbnailVars>>

\* The user deletes an image from the document.
removeImage(id) ==
    /\ edits < MaxEdits
    /\ imagePositions(doc, id) # {}
    /\ doc' = delete(doc, getPos(doc, id), getPos(doc, id) + nodeSize)
    /\ edits' = edits + 1
    /\ UNCHANGED <<merging, mergeEvent>>
    /\ UNCHANGED <<editorVars, mosaicVars, dialogVars, thumbnailVars>>

\* The user types a character at the start of the document.
insertText ==
    /\ edits < MaxEdits
    /\ doc' = insert(doc, 1, Txt)
    /\ edits' = edits + 1
    /\ UNCHANGED <<merging, mergeEvent>>
    /\ UNCHANGED <<editorVars, mosaicVars, dialogVars, thumbnailVars>>

InitMerge ==
    /\ image = Null
    /\ tool = "none"
    /\ isDrawing = FALSE
    /\ startPoint = Null
    /\ currentPath = <<>>
    /\ history = <<>>
    /\ historyStep = -1
    /\ canvas = NoCanvas
    /\ imageUrl = ""
    /\ pending = {}
    /\ lastEvent = "init"
    /\ output = Null
    /\ replay = [phase |-> "off"]
    /\ doc \in InitialDocs
    /\ merging = Null
    /\ mergeEvent = [kind |-> "none"]
    /\ edits = 0
    /\ mosaic = Null
    /\ InitDialog
    /\ InitThumbnail

NextMerge ==
    \/ \E draggedId \in Ids : \E targetId \in Ids :
          handleCustomDrop(draggedId, targetId)
    \/ \E targetRes \in ProbeResults : \E draggedRes \in ProbeResults :
          commitMerge(targetRes, draggedRes)
    \/ \E id \in Ids : removeImage(id)
    \/ insertText

SpecMerge == InitMerge /\ [][NextMerge]_vars

(***************************************************************************)
(* The merge of long, narrow images: strips of one pixel by up to MaxLong.  *)
(***************************************************************************)
MaxLong == 14        \* the longer side of a probed strip

StripResults ==
    {res \in (1..MaxLong) \X (1..MaxLong) : res[1] = 1 \/ res[2] = 1}

NextMergeStrips ==
    \/ \E draggedId \in Ids : \E targetId \in Ids :
          handleCustomDrop(draggedId, targetId)
    \/ \E targetRes \in StripResults : \E draggedRes \in StripResults :
          commitMerge(targetRes, draggedRes)
    \/ \E id \in Ids : removeImage(id)
    \/ insertText

SpecMergeStrips == InitMerge /\ [][NextMergeStrips]_vars

(***************************************************************************)
(* The thumbnail registry (src/CustomImageExtension.tsx, lines 15-121).    *)
(***************************************************************************)
setUrlToKeyMapping(url, key) ==
    /\ urlToKeyMap' = [urlToKeyMap EXCEPT ![url] = key]
    /\ UNCHANGED <<thumbnailUrl, thumbnailKey>>
    /\ UNCHANGED <<editorVars, mergeVars, mosaicVars, dialogVars>>

setGlobalThumbnailKey(key) ==
    /\ thumbnailKey' = key
    /\ UNCHANGED <<thumbnailUrl, urlToKeyMap>>
    /\ UNCHANGED <<editorVars, mergeVars, mosaicVars, dialogVars>>

\* the key setGlobalThumbnailUrl leaves: that of the URL when the map has
\* one, null for a null URL, and the key there was otherwise
keyAfterUrl(url, map, key) ==
    IF url # Null
    THEN IF map[url] # Null THEN map[url] ELSE key
    ELSE Null

setGlobalThumbnailUrl(url) ==
    /\ thumbnailUrl' = url
    /\ thumbnailKey' = keyAfterUrl(url, urlToKeyMap, thumbnailKey)
    /\ UNCHANGED urlToKeyMap
    /\ UNCHANGED <<editorVars, mergeVars, mosaicVars, dialogVars>>

NextThumbnail ==
    \/ \E url \in ThumbnailUrls : \E key \in ThumbnailKeys :
          setUrlToKeyMapping(url, key)
    \/ \E key \in ThumbnailKeys \cup {Null} : setGlobalThumbnailKey(key)
    \/ \E url \in ThumbnailUrls \cup {Null} : setGlobalThumbnailUrl(url)

SpecThumbnail == Init /\ [][NextThumbnail]_vars

(***************************************************************************)
(* The link dialog (src/components/LinkPreviewDialog.tsx, lines 28-98).    *)
(* The state of the component is one record; a fetch in flight keeps the   *)
(* url and the linkText of the render it was started in.                   *)
(***************************************************************************)
\* what is typed into the URL input (without surrounding blanks)
UrlInputs == {"", "example", "https://a", "https://b"}
LinkTexts == {"", "text"}
Layouts == {"horizontal", "vertical"}

\* isValidUrl of @/shared/lib/linkPreviewApi on these inputs
isValidUrl(u) == u \in {"https://a", "https://b"}

\* what fetchLinkMetadata(u) resolves to: the metadata of the page at u
fetchLinkMetadata(u) ==
    [url |-> u, title |-> IF u = "https://a" THEN "A" ELSE "B"]

\* the parent renders the dialog with open = true
openDialog ==
    /\ ~dialog.open
    /\ dialog' = [dialog EXCEPT !.open = TRUE]
    /\ UNCHANGED <<fetches, inserted>>
    /\ UNCHANGED <<editorVars, mergeVars, mosaicVars, thumbnailVars>>

\* the state handleUrlChange leaves
urlChanged(value, d) ==
    [d EXCEPT !.url = value, !.error = "", !.metadata = Null]

handleUrlChange(value) ==
    /\ dialog.open
    /\ value # dialog.url
    /\ dialog' = urlChanged(value, dialog)
    /\ UNCHANGED <<fetches, inserted>>
    /\ UNCHANGED <<editorVars, mergeVars, mosaicVars, thumbnailVars>>

setLinkType(t) ==
    /\ dialog.open
    /\ t # dialog.linkType
    /\ dialog' = [dialog EXCEPT !.linkType = t]
    /\ UNCHANGED <<fetches, inserted>>
    /\ UNCHANGED <<editorVars, mergeVars, mosaicVars, thumbnailVars>>

\* the link text input is rendered for a text link only
setLinkText(text) ==
    /\ dialog.open
    /\ dialog.linkType = "link"
    /\ text # dialog.linkText
    /\ dialog' = [dialog EXCEPT !.linkText = text]
    /\ UNCHANGED <<fetches, inserted>>
    /\ UNCHANGED <<editorVars, mergeVars, mosaicVars, thumbnailVars>>

\* the layout buttons are rendered for a preview card only
setLayout(l) ==
    /\ dialog.open
    /\ dialog.linkType = "preview"
    /\ l # dialog.layout
    /\ dialog' = [dialog EXCEPT !.layout = l]
    /\ UNCHANGED <<fetches, inserted>>
    /\ UNCHANGED <<editorVars, mergeVars, mosaicVars, thumbnailVars>>

\* handleFetchMetadata up to the await.  The fetch button is disabled and
\* the Enter key is ignored while isLoading.
handleFetchMetadata ==
    /\ dialog.open
    /\ ~dialog.isLoading
    /\ IF dialog.url = ""
       THEN /\ dialog' = [dialog EXCEPT !.error = "urlRequired"]
            /\ UNCHANGED fetches
       ELSE IF ~isValidUrl(dialog.url)
       THEN /\ dialog' = [dialog EXCEPT !.error = "urlInvalid"]
            /\ UNCHANGED fetches
       ELSE /\ dialog' = [dialog EXCEPT !.error = "", !.isLoading = TRUE]
            /\ fetches' = fetches \cup
                             {[url |-> dialog.url, linkText |-> dialog.linkText]}
    /\ UNCHANGED inserted
    /\ UNCHANGED <<editorVars, mergeVars, mosaicVars, thumbnailVars>>

\* the fetch resolved: setMetadata(data), setLinkText(data.title) when the
\* link text was empty at the call, and setIsLoading(false)
fetchResolves ==
    \E f \in fetches :
        /\ fetches' = fetches \ {f}
        /\ dialog' = [dialog EXCEPT
                         !.metadata = fetchLinkMetadata(f.url),
                         !.linkText = IF f.linkText = ""
                                      THEN fetchLinkMetadata(f.url).title
                                      ELSE @,
                         !.isLoading = FALSE]
        /\ UNCHANGED inserted
        /\ UNCHANGED <<editorVars, mergeVars, mosaicVars, thumbnailVars>>

\* the fetch failed: setError(...) and setIsLoading(false)
fetchRejects ==
    \E f \in fetches :
        /\ fetches' = fetches \ {f}
        /\ dialog' = [dialog EXCEPT !.error = "fetchFailed",
                                     !.isLoading = FALSE]
        /\ UNCHANGED inserted
        /\ UNCHANGED <<editorVars, mergeVars, mosaicVars, thumbnailVars>>

handleInsert ==
    /\ dialog.open
    /\ IF dialog.url = ""
       THEN /\ dialog' = [dialog EXCEPT !.error = "urlRequired"]
            /\ UNCHANGED inserted
       ELSE IF ~isValidUrl(dialog.url)
       THEN /\ dialog' = [dialog EXCEPT !.error = "urlInvalid"]
            /\ UNCHANGED inserted
       ELSE /\ inserted' =
                 [type |-> dialog.linkType,
                  url |-> dialog.url,
                  text |-> IF dialog.linkText # "" THEN dialog.linkText
                           ELSE dialog.url,
                  metadata |-> dialog.metadata,
                  layout |-> IF dialog.linkType = "preview"
                             THEN dialog.layout ELSE "undefined"]
            \* the state is reset and onOpenChange(false) closes the dialog
            /\ dialog' = [initialDialog EXCEPT !.isLoading = dialog.isLoading]
    /\ UNCHANGED fetches
    /\ UNCHANGED <<editorVars, mergeVars, mosaicVars, thumbnailVars>>

NextDialog ==
    \/ openDialog
    \/ \E value \in UrlInputs : handleUrlChange(value)
    \/ \E t \in {"link", "preview"} : setLinkType(t)
    \/ \E text \in LinkTexts : setLinkText(text)
    \/ \E l \in Layouts : setLayout(l)
    \/ handleFetchMetadata
    \/ fetchResolves
    \/ fetchRejects
    \/ handleInsert

SpecDialog == Init /\ [][NextDialog]_vars

(***************************************************************************)
(* applyMosaic on the pixels of a canvas (LinkPreviewDialog.tsx, lines     *)
(* 477-512).  A canvas is the function from its pixels, <<column, row>>,   *)
(* to their colours <<r, g, b>>; the images drawn on it are opaque.        *)
(***************************************************************************)
CanvasSide == 12     \* the canvas is CanvasSide pixels wide and high
MaxPasses == 2       \* applyMosaic is run this many times on a canvas

mosaicSize == 10

CanvasPixels == (0..(CanvasSide - 1)) \X (0..(CanvasSide - 1))

Dark == <<40, 80, 120>>
Light == <<250, 150, 51>>

\* the canvases applyMosaic is given: one colour all over, and a band of two
\* columns of one colour beside another colour
Uniform == [p \in CanvasPixels |-> Light]
Banded == [p \in CanvasPixels |-> IF p[1] < 2 THEN Dark ELSE Light]
InputCanvases == {Uniform, Banded}

\* the pointer positions of a mosaic gesture, the last column and row of the
\* canvas among them
Coordinates == {0, 2, mosaicSize, CanvasSide - 1}
MosaicPoints == {Pt(px, py) : px \in Coordinates, py \in Coordinates}

\* getImageData gives transparent black for what lies outside the canvas
pixelAt(px, p) == IF p \in DOMAIN px THEN px[p] ELSE <<0, 0, 0>>

\* the sum of one channel over the sw pixels of a row of the image data,
\* from its pixel i on
RECURSIVE rowSum(_, _, _, _, _, _)
rowSum(px, ch, sx, row, sw, i) ==
    IF i >= sw THEN 0
    ELSE pixelAt(px, <<sx + i, row>>)[ch] + rowSum(px, ch, sx, row, sw, i + 1)

\* the sum of one channel over the sw x sh pixels getImageData(sx, sy, sw, sh)
\* returns, row by row from row j on
RECURSIVE channelSum(_, _, _, _, _, _, _)
channelSum(px, ch, sx, sy, sw, sh, j) ==
    IF j >= sh THEN 0
    ELSE rowSum(px, ch, sx, sy + j, sw, 0)
            + channelSum(px, ch, sx, sy, sw, sh, j + 1)

\* Math.floor(r / count), count being every pixel of the mosaicSize square
blockAverage(px, mX, mY) ==
    LET count == mosaicSize * mosaicSize
    IN [ch \in 1..3 |->
           channelSum(px, ch, mX, mY, mosaicSize, mosaicSize, 0) \div count]

\* ctx.fillRect(x, y, w, h) with an opaque fill colour
fillRect(px, x, y, w, h, colour) ==
    [p \in DOMAIN px |->
        IF /\ x <= p[1] /\ p[1] < x + w
           /\ y <= p[2] /\ p[2] < y + h
        THEN colour ELSE px[p]]

\* the inner loop: the blocks of one row, from mX on
RECURSIVE mosaicRow(_, _, _, _)
mosaicRow(px, mX, mY, xEnd) ==
    IF mX >= xEnd THEN px
    ELSE mosaicRow(fillRect(px, mX, mY, mosaicSize, mosaicSize,
                            blockAverage(px, mX, mY)),
                   mX + mosaicSize, mY, xEnd)

\* the outer loop: the rows of blocks, from mY on
RECURSIVE mosaicRows(_, _, _, _, _)
mosaicRows(px, x, mY, xEnd, yEnd) ==
    IF mY >= yEnd THEN px
    ELSE mosaicRows(mosaicRow(px, x, mY, xEnd), x, mY + mosaicSize, xEnd, yEnd)

applyMosaic(px, points) ==
    IF Len(points) < 2 THEN px
    ELSE LET x == Min(points[1].x, points[2].x)
             y == Min(points[1].y, points[2].y)
             width == Abs(points[2].x - points[1].x)
             height == Abs(points[2].y - points[1].y)
         IN mosaicRows(px, x, y, x + width, y + height)

InitMosaic ==
    /\ image = Null
    /\ tool = "none"
    /\ isDrawing = FALSE
    /\ startPoint = Null
    /\ currentPath = <<>>
    /\ history = <<>>
    /\ historyStep = -1
    /\ canvas = NoCanvas
    /\ imageUrl = ""
    /\ pending = {}
    /\ lastEvent = "init"
    /\ output = Null
    /\ replay = [phase |-> "off"]
    /\ doc = <<>>
    /\ merging = Null
    /\ mergeEvent = [kind |-> "none"]
    /\ edits = 0
    /\ InitDialog
    /\ InitThumbnail
    /\ \E px \in InputCanvases : \E start \in MosaicPoints :
          \E end \in MosaicPoints :
             mosaic = [points |-> <<start, end>>, surfaces |-> <<px>>]

\* applyAction of the mosaic action on the canvas, once more
applyMosaicAction ==
    /\ Len(mosaic.surfaces) <= MaxPasses
    /\ mosaic' = [mosaic EXCEPT !.surfaces =
                      Append(@, applyMosaic(@[Len(@)], mosaic.points))]
    /\ UNCHANGED <<editorVars, mergeVars, dialogVars, thumbnailVars>>

NextMosaic == applyMosaicAction

SpecMosaic == InitMosaic /\ [][NextMosaic]_vars

(***************************************************************************)
(* Properties.                                                             *)
(***************************************************************************)
recordEvents == {"record", "recordAfterUndo"}

\* C1: in every reachable state -1 <= historyStep < history.length, and
\* historyStep = -1 when the history is empty.
C1_HistoryStepInRange ==
    /\ -1 <= historyStep
    /\ historyStep < Len(history)
    /\ history = <<>> => historyStep = -1

\* all actions undone: the cursor is -1 under a full history
C1_Witness ==
    /\ lastEvent = "undo"
    /\ Len(history) = MaxHistory
    /\ historyStep = -1

\* C2: recording an action at cursor c yields the old actions 0..c followed
\* by the new action, with the cursor on it; what was beyond c is gone and
\* redo is unavailable.
C2_RecordTruncates ==
    [][lastEvent' \in recordEvents =>
          /\ Len(history') = historyStep + 2
          /\ \A i \in 1..(historyStep + 1) : history'[i] = history[i]
          /\ history'[historyStep + 2].type = tool
          /\ \/ history'[historyStep + 2].points = currentPath
             \/ \E p \in Points :
                    history'[historyStep + 2].points = <<startPoint, p>>
          /\ historyStep' = Len(history') - 1
          /\ ~(historyStep' < Len(history') - 1)]_vars

\* [a, b] at cursor 0 (after one undo), an action recorded: [a, d] at cursor 1
C2_Witness ==
    /\ lastEvent = "recordAfterUndo"
    /\ Len(history) = 2
    /\ historyStep = 1
    /\ history[1] # history[2]

\* C3: undo decrements the cursor by one when it is above -1 and does
\* nothing at -1; the action sequence and the base image stay as they are.
C3_UndoStep ==
    [][lastEvent' \in {"undo", "undoNoop"} =>
          /\ historyStep' = IF historyStep > -1 THEN historyStep - 1
                            ELSE historyStep
          /\ history' = history
          /\ image' = image]_vars

\* undo pressed with everything undone already
C3_Witness ==
    /\ lastEvent = "undoNoop"
    /\ historyStep = -1
    /\ Len(history) > 0

\* C4: redo increments the cursor by one when it is below length-1 and does
\* nothing at length-1; the action sequence stays as it is, so the action
\* redo activates is the one undo deactivated.
C4_RedoStep ==
    [][/\ lastEvent' \in {"redo", "redoNoop"} =>
             /\ historyStep' = IF historyStep < Len(history) - 1
                               THEN historyStep + 1 ELSE historyStep
             /\ history' = history
       /\ lastEvent' = "undo" =>
             /\ history' = history
             /\ historyStep' + 1 = historyStep
             /\ historyStep' < Len(history') - 1]_vars

\* redo from the fully undone history of two actions
C4_Witness ==
    /\ lastEvent = "redo"
    /\ Len(history) = 2
    /\ historyStep = 0

\* C5: N actions recorded, then undo N times and redo N times: the history,
\* the cursor and the surface are those right after the recording.
C5_ReplayRestores ==
    replay.phase = "done" =>
        /\ history = replay.history
        /\ historyStep = replay.historyStep
        /\ canvas = replay.canvas

\* the scenario run to its end on a history of two visible strokes
C5_Witness ==
    /\ replay.phase = "done"
    /\ replay.n = 2
    /\ Len(canvas.drawn) = 2

\* C6: whenever no gesture is in progress and an image is loaded, the surface
\* is the base image composited with exactly history[0..historyStep].
C6_SurfaceIsComposite ==
    (~isDrawing /\ image # Null) =>
        canvas = [width |-> canvasSize(image)[1],
                  height |-> canvasSize(image)[2],
                  base |-> image,
                  drawn |-> applyAll(SubSeq(history, 1, historyStep + 1))]

\* C7: a crop gesture over a region with area extracts that region of the
\* surface, and when the cropped image has loaded it is the base image and
\* the history is empty with the cursor at -1.
C7_CropReplacesAndClears ==
    [][/\ lastEvent' = "crop" =>
             \E p \in Points :
                 /\ p.x # startPoint.x /\ p.y # startPoint.y
                 /\ pending' = pending \cup
                       {[img |-> [kind |-> "crop", of |-> canvas,
                                  x |-> Min(startPoint.x, p.x),
                                  y |-> Min(startPoint.y, p.y),
                                  width |-> Abs(p.x - startPoint.x),
                                  height |-> Abs(p.y - startPoint.y)],
                         clears |-> TRUE]}
                 /\ pending' # pending
       /\ lastEvent' = "cropLoad" =>
             /\ \E l \in pending : l.img.kind = "crop" /\ image' = l.img
             /\ history' = <<>>
             /\ historyStep' = -1]_vars

\* the crop of a surface with a pen stroke has loaded during a gesture that
\* began after the crop's pointer-up
C7_Witness ==
    /\ lastEvent = "cropLoad"
    /\ image.kind = "crop"
    /\ \E i \in 1..Len(image.of.drawn) : image.of.drawn[i].type = "pen"
    /\ isDrawing
    /\ history = <<>>

\* C8: once a newly loaded image (props or file input) is the base image,
\* the history is empty and the cursor is -1.
C8_LoadClearsHistory ==
    lastEvent = "load" => (history = <<>> /\ historyStep = -1)

\* C9: a pen gesture that ends with only its start point captured records
\* nothing; one with two or more points appends one pen action carrying the
\* whole path.
C9_PenPath ==
    [][(lastEvent' \in recordEvents \cup {"discard"} /\ tool = "pen") =>
          IF Len(currentPath) <= 1
          THEN history' = history /\ historyStep' = historyStep
          ELSE /\ Len(history') = historyStep + 2
               /\ history'[Len(history')].type = "pen"
               /\ history'[Len(history')].points = currentPath
               /\ SubSeq(history', 1, historyStep + 1)
                     = SubSeq(history, 1, historyStep + 1)]_vars

\* a pen gesture released without a move, over a history that has an action
C9_Witness ==
    /\ lastEvent = "discard"
    /\ tool = "pen"
    /\ Len(history) > 0

\* C10: a crop gesture over a region without width or without height leaves
\* the base image, the surface dimensions, the history and the cursor as
\* they are.
C10_EmptyCrop ==
    [][lastEvent' = "cropEmpty" =>
          /\ image' = image
          /\ canvas'.width = canvas.width
          /\ canvas'.height = canvas.height
          /\ history' = history
          /\ historyStep' = historyStep
          /\ pending' = pending]_vars

\* a crop dragged straight down: a region with height and without width
C10_Witness ==
    /\ lastEvent = "cropEmpty"
    /\ canvas.drawn # <<>>
    /\ canvas.drawn[Len(canvas.drawn)].type = "cropPreview"
    /\ Len(history) > 0

\* C11: a mosaic gesture over a region without width or without height
\* records nothing: the pointer-up leaves the history and the cursor as they
\* were.
C11_EmptyMosaic ==
    [][\A p \in Points :
          (/\ handleMouseUp(p)
           /\ tool = "mosaic"
           /\ \/ regionWidth(startPoint, p) = 0
              \/ regionHeight(startPoint, p) = 0)
          => (history' = history /\ historyStep' = historyStep)]_vars

\* C12: a rectangle or circle gesture released at the point where it began
\* is dropped: the pointer-up records no action and leaves the history, the
\* cursor, the base image and the surface as they were.
C12_EmptyShape ==
    [][(/\ tool \in {"rectangle", "circle"}
        /\ startPoint # Null
        /\ handleMouseUp(startPoint))
       => /\ history' = history
          /\ historyStep' = historyStep
          /\ image' = image
          /\ canvas' = canvas]_vars

\* C13: while no base image is loaded, whatever handler runs (a pointer
\* gesture, undo, redo, save, download) changes nothing: the history stays
\* empty, the cursor stays -1, there is no surface, no gesture begins and
\* nothing is handed to onSave or to a download link.
C13_NoImageNoOp ==
    [][image = Null =>
          /\ history = <<>> /\ history' = <<>>
          /\ historyStep = -1 /\ historyStep' = -1
          /\ isDrawing' = isDrawing
          /\ startPoint' = startPoint
          /\ currentPath' = currentPath
          /\ output' = Null
          /\ image' = Null => canvas' = canvas]_vars

\* save pressed while the first image is still loading
C13_Witness ==
    /\ lastEvent = "saveNoop"
    /\ image = Null
    /\ pending # {}

\* C14: a pointer-move during a gesture, with any tool, leaves the history
\* and the cursor as they are; of the editor's state only the preview on the
\* canvas and, for the pen, the path in progress change.
C14_MoveKeepsHistory ==
    [][lastEvent' = "move" =>
          /\ history' = history
          /\ historyStep' = historyStep
          /\ image' = image
          /\ tool' = tool
          /\ isDrawing' = isDrawing
          /\ startPoint' = startPoint
          /\ pending' = pending
          /\ tool # "pen" => currentPath' = currentPath]_vars

\* a circle previewed over a history that has an action
C14_Witness ==
    /\ lastEvent = "move"
    /\ tool = "circle"
    /\ Len(history) > 0
    /\ Len(canvas.drawn) > 0
    /\ canvas.drawn[Len(canvas.drawn)].type = "circle"

\* C15: what save or download exports is the base image composited with
\* history[0..historyStep]; the preview of an unfinished gesture is not
\* part of it.
C15_ExportIsComposite ==
    output # Null =>
        output.pixels = [width |-> canvasSize(image)[1],
                         height |-> canvasSize(image)[2],
                         base |-> image,
                         drawn |-> applyAll(SubSeq(history, 1, historyStep + 1))]

\* the step that ends a mergeImages call whose transaction was applied
mergeCommitted == merging # Null /\ mergeEvent'.kind = "merged"

\* the width the block with the id has after the step
widthAfter(id) == doc'[getPos(doc', id) + 1].width

\* C16: the merge sets the target width to round(r_t / (r_t + r_d) * 98)
\* percent (an integer nearest to that value) and the dragged width to 98
\* minus it, so the two sum to 98; ratios 2 and 1 give 65% and 33%.
C16_MergeWidths ==
    [][\A targetRes \in ProbeResults : \A draggedRes \in ProbeResults :
          (mergeCommitted /\ commitMerge(targetRes, draggedRes)) =>
              LET rt == getImageAspectRatio(targetRes)
                  rd == getImageAspectRatio(draggedRes)
                  a == rt[1] * rd[2]
                  b == rd[1] * rt[2]
                  tw == widthAfter(merging.targetNode.id)
                  dw == widthAfter(merging.draggedNode.id)
              IN /\ tw.unit = "%" /\ dw.unit = "%"
                 /\ tw.n + dw.n = 98
                 /\ 2 * Abs(tw.n * (a + b) - 98 * a) <= a + b
                 /\ (rt[1] = 2 * rt[2] /\ rd[1] = rd[2])
                       => (tw.n = 65 /\ dw.n = 33)]_vars

\* a merge that gave the target 65% and the block after it 33%
C16_Witness ==
    /\ mergeEvent.kind = "merged"
    /\ \E p \in 1..(Len(doc) - 1) :
          /\ doc[p].type = "image" /\ doc[p].width = Percent(65)
          /\ doc[p + 1].type = "image" /\ doc[p + 1].width = Percent(33)

\* C17: with the widths of the merge both blocks have the same height:
\* target_width / r_t and dragged_width / r_d differ by no more than the
\* rounding of the target width (half a percent) contributes to the two,
\* (1 / r_t + 1 / r_d) / 2.
C17_EqualHeights ==
    [][\A targetRes \in ProbeResults : \A draggedRes \in ProbeResults :
          (mergeCommitted /\ commitMerge(targetRes, draggedRes)) =>
              LET rt == getImageAspectRatio(targetRes)
                  rd == getImageAspectRatio(draggedRes)
                  tw == widthAfter(merging.targetNode.id).n
                  dw == widthAfter(merging.draggedNode.id).n
              IN 2 * Abs(tw * rt[2] * rd[1] - dw * rd[2] * rt[1])
                    <= rt[2] * rd[1] + rd[2] * rt[1]]_vars

\* ratios 2/3 and 1: 39.2 rounded to 39%, and 59%
C17_Witness ==
    /\ mergeEvent.kind = "merged"
    /\ \E p \in 1..(Len(doc) - 1) :
          /\ doc[p].type = "image" /\ doc[p].width = Percent(39)
          /\ doc[p + 1].type = "image" /\ doc[p + 1].width = Percent(59)

\* C18: a drop of a block on itself is rejected before any lookup or probe:
\* no mergeImages call is started and the document stays as it is.
C18_SelfDropRejected ==
    [][mergeEvent'.kind = "selfDrop" =>
          /\ merging = Null /\ merging' = Null
          /\ mergeEvent.kind = "none" => doc' = doc]_vars

\* a block of the two-paragraph document was dropped on itself
C18_Witness ==
    /\ mergeEvent.kind = "selfDrop"
    /\ Len(doc) > 4

\* C19: a merge whose dragged block is not in the document when the drop is
\* handled, or whose dragged or target block is not in the document any
\* more when the probes have answered, leaves the document as it is.
C19_VanishedBlockAborts ==
    [][/\ (mergeEvent.kind = "none" /\ mergeEvent'.kind = "notFound") =>
             doc' = doc /\ merging' = Null
       /\ (/\ merging # Null /\ merging' = Null
           /\ \/ notFound(doc, merging.draggedNode.id)
              \/ notFound(doc, merging.targetNode.id)) =>
             doc' = doc]_vars

\* the probes answered after block b, one of the two, had been deleted
C19_Witness ==
    /\ mergeEvent.kind = "mismatch"
    /\ doc = <<OpenP, Img("a", Auto), CloseP>>

\* C20: after a successful merge the dragged block is in the document once
\* and is the node right after the target block.
C20_DraggedFollowsTarget ==
    [][mergeCommitted =>
          /\ Cardinality(imagePositions(doc', merging.draggedNode.id)) = 1
          /\ Cardinality(imagePositions(doc', merging.targetNode.id)) = 1
          /\ getPos(doc', merging.draggedNode.id)
                = getPos(doc', merging.targetNode.id) + 1]_vars

\* block a, which came first, merged onto b after a character was typed
\* before both
C20_Witness ==
    /\ mergeEvent.kind = "merged"
    /\ edits > 0
    /\ doc[2] = Txt
    /\ \E p \in 1..(Len(doc) - 1) :
          /\ doc[p].type = "image" /\ doc[p].id = "b"
          /\ doc[p + 1].type = "image" /\ doc[p + 1].id = "a"

\* the document without the image that has the id
without(d, id) == SelectSeq(d, LAMBDA t : ~(t.type = "image" /\ t.id = id))

\* two nodes that differ in nothing, or are images that differ in width only
sameButWidth(n, m) ==
    \/ n = m
    \/ /\ n.type = "image" /\ m.type = "image"
       /\ [n EXCEPT !.width = Auto] = [m EXCEPT !.width = Auto]

\* C21: a successful merge is one edit of the document that changes the
\* width of the two blocks and the place of the dragged block and nothing
\* else: the dragged block keeps its id, src and marks, the target keeps
\* every attribute but width and its place, the number of images is the
\* same, and the other nodes are the same in the same order; no other step
\* of the merge changes the document.
C21_MergeFrame ==
    [][/\ mergeCommitted =>
             LET did == merging.draggedNode.id
                 tid == merging.targetNode.id
                 rest == without(doc, did)
                 rest2 == without(doc', did)
             IN /\ Len(doc') = Len(doc)
                /\ sameButWidth(nodeAt(doc', getPos(doc', did)),
                                nodeAt(doc, getPos(doc, did)))
                /\ Len(rest2) = Len(rest)
                /\ \A i \in 1..Len(rest) :
                      IF rest[i].type = "image" /\ rest[i].id = tid
                      THEN sameButWidth(rest2[i], rest[i])
                      ELSE rest2[i] = rest[i]
                /\ \A id \in Ids : Cardinality(imagePositions(doc', id))
                                       = Cardinality(imagePositions(doc, id))
       /\ doc' # doc => (mergeCommitted \/ edits' # edits)]_vars

\* the linked image a, alone in its paragraph, was merged onto b: it follows
\* b with its mark, and its paragraph is left empty
C21_Witness ==
    /\ mergeEvent.kind = "merged"
    /\ SubSeq(doc, 1, 3) = <<OpenP, CloseP, OpenP>>
    /\ doc[4].type = "image" /\ doc[4].id = "b"
    /\ doc[5].type = "image" /\ doc[5].id = "a" /\ doc[5].marks = {"link"}

\* C28: whatever the (positive, finite) aspect ratios of the two blocks, a
\* merge gives each block an integer width from 1% to 97%; neither gets 0%.
C28_WidthsVisible ==
    [][mergeCommitted =>
          LET tw == widthAfter(merging.targetNode.id)
              dw == widthAfter(merging.draggedNode.id)
          IN /\ tw.unit = "%" /\ tw.n \in 1..97
             /\ dw.unit = "%" /\ dw.n \in 1..97]_vars

\* C22: while an image load is in flight (the first load, a load from the
\* file input or the reload after a crop) no gesture begins and no undo or
\* redo takes effect.
C22_NoOverlap ==
    [][pending # {} =>
          /\ ~(~isDrawing /\ isDrawing')
          /\ lastEvent' \notin {"undo", "redo"}]_vars

\* C23: the onload of a load that was started for an image the editor is no
\* longer given (the parent has passed another one since, whose load was
\* started later) never sets the base image: the image a load has just set
\* is the one the editor is given now.
C23_NoStaleLoad ==
    (lastEvent = "load" /\ imageUrl # "") => image.file = imageUrl

\* C26: a pointer-down with tool none begins no gesture; a pointer-down with
\* another tool sets the start point and begins the gesture, with a path of
\* that one point for the pen; and a pointer-up that ends a gesture, with
\* any tool, crop included, leaves the editor idle with no start point and
\* an empty path.
C26_GestureStates ==
    [][/\ tool = "none" => ~(~isDrawing /\ isDrawing')
       /\ \A p \in DownPoints :
             handleMouseDown(p) =>
                 /\ isDrawing' /\ startPoint' = p
                 /\ tool = "pen" => currentPath' = <<p>>
       /\ \A p \in Points :
             handleMouseUp(p) =>
                 /\ ~isDrawing'
                 /\ startPoint' = Null
                 /\ currentPath' = <<>>]_vars

\* C27: a gesture that is completed records an action of the tool the
\* gesture began with, with the points [start, end] for mosaic, rectangle
\* and circle; the tool does not change between the pointer-down and the
\* pointer-up of a gesture; and with tool none or eraser nothing is
\* recorded.
C27_ToolOfGesture ==
    [][/\ isDrawing => tool' = tool
       /\ \A p \in Points :
             (handleMouseUp(p) /\ history' # history) =>
                 /\ tool \notin {"none", "eraser"}
                 /\ history'[Len(history')].type = tool
                 /\ tool \in {"mosaic", "rectangle", "circle"} =>
                       history'[Len(history')].points = <<startPoint, p>>]_vars

\* C30: right after setGlobalThumbnailUrl(u), whatever was set before, the
\* thumbnail key is null when u is null and is the key urlToKeyMap has for u
\* otherwise (none, when the map has none): it is not the key left by an
\* earlier URL.
C30_KeyFollowsUrl ==
    [][\A u \in ThumbnailUrls \cup {Null} :
          setGlobalThumbnailUrl(u) =>
              thumbnailKey' = IF u = Null THEN Null ELSE urlToKeyMap[u]]_vars

\* C29: metadata that is not null was fetched for the URL that is in the
\* input, and what onInsert is given as metadata was fetched for the url it
\* is given: a URL typed while a fetch is in flight is never shown or
\* inserted with the metadata of the URL before it.
C29_MetadataOfUrl ==
    /\ dialog.metadata # Null => dialog.metadata.url = dialog.url
    /\ (inserted # Null /\ inserted.metadata # Null) =>
           inserted.metadata.url = inserted.url

\* the pixels of the bounding rectangle of the two points
regionPixels(points) ==
    {p \in CanvasPixels :
        /\ Min(points[1].x, points[2].x) <= p[1]
        /\ p[1] < Min(points[1].x, points[2].x)
                     + Abs(points[2].x - points[1].x)
        /\ Min(points[1].y, points[2].y) <= p[2]
        /\ p[2] < Min(points[1].y, points[2].y)
                     + Abs(points[2].y - points[1].y)}

\* C24: a mosaic over a region that has one colour leaves the canvas as it
\* was, and a second mosaic over the same region leaves the canvas as the
\* first one left it, also where the region reaches the edge of the canvas.
C24_MosaicIdempotent ==
    /\ (/\ Len(mosaic.surfaces) >= 2
        /\ \A p \in regionPixels(mosaic.points) :
              \A q \in regionPixels(mosaic.points) :
                 mosaic.surfaces[1][p] = mosaic.surfaces[1][q])
          => mosaic.surfaces[2] = mosaic.surfaces[1]
    /\ Len(mosaic.surfaces) >= 3 => mosaic.surfaces[3] = mosaic.surfaces[2]

\* the sum of a channel over the pixels of a set that lie in the columns
\* from i on, column by column
RECURSIVE sumOver(_, _, _, _)
sumOver(px, ch, S, i) ==
    IF i >= CanvasSide THEN 0
    ELSE LET column == {p \in S : p[1] = i}
             RECURSIVE columnSum(_)
             columnSum(j) ==
                 IF j >= CanvasSide THEN 0
                 ELSE (IF <<i, j>> \in column THEN px[<<i, j>>][ch] ELSE 0)
                         + columnSum(j + 1)
         IN columnSum(0) + sumOver(px, ch, S, i + 1)

\* C25: a mosaic changes no pixel outside the bounding rectangle of its two
\* points, and every pixel inside it gets the mean colour of the pixels of
\* its block that lie inside the rectangle.
C25_MosaicInsideRegion ==
    Len(mosaic.surfaces) >= 2 =>
        LET before == mosaic.surfaces[1]
            after == mosaic.surfaces[2]
            region == regionPixels(mosaic.points)
            x == Min(mosaic.points[1].x, mosaic.points[2].x)
            y == Min(mosaic.points[1].y, mosaic.points[2].y)
            blockOf(p) ==
                {q \in region :
                    /\ (q[1] - x) \div mosaicSize = (p[1] - x) \div mosaicSize
                    /\ (q[2] - y) \div mosaicSize = (p[2] - y) \div mosaicSize}
        IN /\ \A p \in CanvasPixels \ region : after[p] = before[p]
           /\ \A p \in region : \A ch \in 1..3 :
                 after[p][ch] = sumOver(before, ch, blockOf(p), 0)
                                   \div Cardinality(blockOf(p))

====
